---- MODULE Spec2Model ----
(***************************************************************************)
(* SEPA strategy dashboard (sepa_streamlit.py).                            *)
(*                                                                         *)
(* A price history (pandas DataFrame) is a record                          *)
(*   [kind |-> "df", Close |-> seq, Low |-> seq, MA |-> columns]           *)
(* where MA maps each moving-average column that exists (a subset of       *)
(* Windows) to a sequence of cells.  A cell is a pair <<num, den>> that    *)
(* stands for the rational num/den; NaN is the cell <<0, 0>>.  Every       *)
(* comparison with NaN is false, as in IEEE-754.  Positions are 1-based:   *)
(* pandas' iloc[j] (0-based) is position j + 1, iloc[-m] is position       *)
(* n - m + 1.  None is the record [kind |-> "None"].  Prices are positive  *)
(* integers and float64 arithmetic is taken as exact rational arithmetic.  *)
(***************************************************************************)
EXTENDS Integers, Sequences, FiniteSets, TLC

VARIABLES
    pc,               \* position of the running script / driver
    load_cache,       \* st.cache_data of load_sepa_stocks
    calc_cache,       \* st.cache_data of calculate_technical_indicators
    sepa_df,          \* main: the loaded candidate table
    filtered_df,      \* main: tickers left by the sidebar filters
    selected_stock,   \* main: ticker chosen in the selectbox
    fetched,          \* what stock.history returned / the caller's DataFrame
    current_criteria, \* baseline map handed to verify_sepa_conditions
    calc_out,         \* outcome of the last calculate_technical_indicators call
    verify_out,       \* outcome of the last verify_sepa_conditions call
    analysis_result,  \* outcome of the last analyze_stock call
    errors,           \* st.error messages of the current run
    rendered          \* UI elements drawn in the current run

vars == <<pc, load_cache, calc_cache, sepa_df, filtered_df, selected_stock,
          fetched, current_criteria, calc_out, verify_out, analysis_result,
          errors, rendered>>

-----------------------------------------------------------------------------
(* Program constants *)

MinBars == 200
MonthOffset == 30
LowTail == 252
GainNum == 13
GainDen == 10
Windows == {5, 50, 150, 200}

(* Bounds of the model *)

MaxPrice == 2
MaxExtra == 1
MaxCache == 1

-----------------------------------------------------------------------------
(* Values *)

None == [kind |-> "None"]
NaN == <<0, 0>>
Num(x) == <<x, 1>>
IsNaN(c) == c[2] = 0

\* a > b on float cells; false when either side is NaN
Gt(a, b) == /\ ~IsNaN(a)
            /\ ~IsNaN(b)
            /\ a[1] * b[2] > b[1] * a[2]

Keys == <<"above_200d", "ma150_above_200d", "ma50_above_both", "above_5d",
          "ma200_rising", "up_30pct_from_52w_low">>
KeySet == {Keys[i] : i \in 1..Len(Keys)}
EmptyMap == [k \in {} |-> FALSE]

Min(a, b) == IF a < b THEN a ELSE b
Max(a, b) == IF a > b THEN a ELSE b

-----------------------------------------------------------------------------
(* Series.rolling(window=k).mean(): one pass over the positions with a     *)
(* running window sum (add the entering close, drop the leaving one);      *)
(* min_periods defaults to the window, so a position with fewer than k     *)
(* observations gets NaN.  A cell <<s, nobs>> is the mean s / nobs.        *)

RollStep(closes, k, min_periods, acc, i) ==
    LET add  == acc + closes[i]
        s    == IF i > k THEN add - closes[i - k] ELSE add
        nobs == Min(i, k)
        cell == IF nobs >= min_periods THEN <<s, nobs>> ELSE NaN
    IN [acc |-> s, out |-> <<cell>>]

\* for i in lo..hi: step i, starting from the running sum acc; the result is
\* the running sum after hi and the cells written for lo..hi.  The range is
\* split in two; the first half is finished (it wrote its mid - lo + 1
\* cells) before the second half starts from the sum it left.
RECURSIVE RollLoop(_, _, _, _, _, _)
RollLoop(closes, k, min_periods, acc, lo, hi) ==
    IF lo > hi THEN [acc |-> acc, out |-> <<>>]
    ELSE IF lo = hi THEN RollStep(closes, k, min_periods, acc, lo)
    ELSE LET mid   == (lo + hi) \div 2
             left  == RollLoop(closes, k, min_periods, acc, lo, mid)
             right == RollLoop(closes, k, min_periods, left.acc, mid + 1, hi)
         IN IF Len(left.out) = mid - lo + 1
            THEN [acc |-> right.acc, out |-> left.out \o right.out]
            ELSE left

RollingWiderWindow(closes, k) ==
    RollLoop(closes, k + 1, k, 0, 1, Len(closes)).out

RollingMinPeriodsOne(closes, k) ==
    RollLoop(closes, k, 1, 0, 1, Len(closes)).out

RollingMean(closes, k) ==
    RollLoop(closes, k, k, 0, 1, Len(closes)).out

NoMA == [w \in {} |-> <<>>]

DataFrame(closes, lows) ==
    [kind |-> "df", Close |-> closes, Low |-> lows, MA |-> NoMA]

\* len(df); len(None) raises TypeError, callers test kind first
DfLen(df) == Len(df.Close)

-----------------------------------------------------------------------------
(* calculate_technical_indicators, body (lines 35-48).                     *)
(* Returns [raised, ret, arg]: arg is the caller's DataFrame after the     *)
(* call (df["MA5"] = ... assigns into the object that was passed in).      *)

TooShortOffByOne(df) == DfLen(df) < MinBars - 1

TooShort(df) == DfLen(df) < MinBars

Augment(df) ==
    LET aug == [df EXCEPT !.MA = [w \in Windows |-> RollingMean(df.Close, w)]]
    IN [raised |-> FALSE, ret |-> aug, arg |-> aug]

calculate_body(df) ==
    IF df.kind = "None" THEN [raised |-> TRUE, ret |-> None, arg |-> df]
    ELSE IF TooShort(df) THEN [raised |-> FALSE, ret |-> None, arg |-> df]
    ELSE Augment(df)

(* @st.cache_data (line 34): the key is the hash of the argument's content; *)
(* a hit returns a copy of the stored value without running the body, a    *)
(* miss runs the body on the caller's object and stores the return value.  *)
(* An exception is not stored.  Result: [raised, ret, arg, cache, hit].    *)

CacheHas(cache, key) == \E e \in cache : e.key = key
CacheGet(cache, key) == (CHOOSE e \in cache : e.key = key).val

calculate_technical_indicators(df, cache) ==
    IF CacheHas(cache, df)
    THEN [raised |-> FALSE, ret |-> CacheGet(cache, df), arg |-> df,
          cache |-> cache, hit |-> TRUE]
    ELSE LET r == calculate_body(df)
         IN [raised |-> r.raised, ret |-> r.ret, arg |-> r.arg,
             cache |-> IF r.raised THEN cache
                       ELSE cache \cup {[key |-> df, val |-> r.ret]},
             hit |-> FALSE]

-----------------------------------------------------------------------------
(* verify_sepa_conditions (lines 50-73).                                    *)
(* Result: [still_valid, new_criteria, changed, errors].                    *)

\* line 53: return False, {}, True
CannotVerify ==
    [still_valid |-> FALSE, new_criteria |-> EmptyMap, changed |-> TRUE,
     errors |-> <<>>]

OnExceptionUnchanged ==
    [still_valid |-> FALSE, new_criteria |-> EmptyMap, changed |-> FALSE,
     errors |-> <<[fn |-> "verify_sepa_conditions", ticker |-> "-"]>>]

\* lines 71-73: st.error(...); return False, {}, True
OnException ==
    [still_valid |-> FALSE, new_criteria |-> EmptyMap, changed |-> TRUE,
     errors |-> <<[fn |-> "verify_sepa_conditions", ticker |-> "-"]>>]

\* df.iloc[-m] on n rows, as a 1-based position
ILocBefore(n, m) == n - m

ILocFromEnd(n, m) == n - m + 1

\* df["Low"].tail(m).min()
TailMin(lows, m) ==
    LET n == Len(lows)
        S == {lows[i] : i \in Max(1, n - m + 1)..n}
    IN CHOOSE x \in S : \A y \in S : x <= y

\* (close / low - 1) > 0.3, in exact arithmetic (low > 0)
GainOver(close, low) == GainDen * close > GainNum * low

\* lines 56-66: the dict literal; every value is computed
NewCriteria(df) ==
    LET n         == DfLen(df)
        latest    == n
        month_ago == ILocFromEnd(n, MonthOffset)
        close     == Num(df.Close[latest])
        ma5       == df.MA[5][latest]
        ma50      == df.MA[50][latest]
        ma150     == df.MA[150][latest]
        ma200     == df.MA[200][latest]
    IN [k \in KeySet |->
         CASE k = "above_200d"       -> Gt(close, ma200)
           [] k = "ma150_above_200d" -> Gt(ma150, ma200)
           [] k = "ma50_above_both"  -> Gt(ma50, ma150) /\ Gt(ma50, ma200)
           [] k = "above_5d"         -> Gt(close, ma5)
           [] k = "ma200_rising"     -> Gt(ma200, df.MA[200][month_ago])
           [] k = "up_30pct_from_52w_low" ->
                  GainOver(df.Close[latest], TailMin(df.Low, LowTail))]

\* line 68: any(current_criteria[k] != new_criteria[k] for k in new_criteria)
\* the generator walks the keys in insertion order and stops at the first
\* difference; current_criteria[k] raises KeyError when k is missing
RECURSIVE AnyDiffersFrom(_, _, _)
AnyDiffersFrom(cur, new, i) ==
    IF i > Len(Keys) THEN "False"
    ELSE IF Keys[i] \notin DOMAIN cur THEN "KeyError"
    ELSE IF cur[Keys[i]] # new[Keys[i]] THEN "True"
    ELSE AnyDiffersFrom(cur, new, i + 1)

LastDiffers(cur, new) ==
    IF Keys[Len(Keys)] \notin DOMAIN cur THEN "KeyError"
    ELSE IF cur[Keys[Len(Keys)]] # new[Keys[Len(Keys)]] THEN "True"
    ELSE "False"

AnyDiffers(cur, new) == AnyDiffersFrom(cur, new, 1)

\* line 69: all(new_criteria.values())
AnyValue(new) == \E k \in DOMAIN new : new[k]

AllValues(new) == \A k \in DOMAIN new : new[k]

verify_sepa_conditions(df, cur) ==
    IF df.kind = "None" THEN CannotVerify
    ELSE IF DfLen(df) < MinBars THEN CannotVerify
    ELSE IF ~(Windows \subseteq DOMAIN df.MA) THEN OnException  \* KeyError: 'MA200'
    ELSE LET new  == NewCriteria(df)
             diff == AnyDiffers(cur, new)
         IN IF diff = "KeyError" THEN OnException
            ELSE [still_valid |-> AllValues(new), new_criteria |-> new,
                  changed |-> (diff = "True"), errors |-> <<>>]

-----------------------------------------------------------------------------
(* analyze_stock (lines 110-147).                                           *)
(* history is what stock.history(period="1y") produced: a DataFrame or     *)
(* [kind |-> "raise"].  Result: [raised, ret, errors, cache].               *)

AnalyzeError(ticker) == [fn |-> "analyze_stock", ticker |-> ticker]

\* lines 128-141; the price change is the cell ((close / prev) - 1) * 100
QualificationRecord(stock_data, df, v) ==
    LET close == df.Close[DfLen(df)]
    IN [kind |-> "record",
        ticker |-> stock_data.ticker,
        price |-> close,
        prev_price |-> stock_data.price,
        change |-> <<(close - stock_data.price) * 100, stock_data.price>>,
        market_cap |-> stock_data.cap,
        sector |-> stock_data.sector,
        conditions_changed |-> v.changed,
        new_criteria |-> v.new_criteria]

Uncaught(ticker, errs, cache) ==
    [raised |-> TRUE, ret |-> None, errors |-> errs, cache |-> cache]

\* lines 145-147: st.error(f"{ticker} ..."); return None
OnAnalyzeException(ticker, errs, cache) ==
    [raised |-> FALSE, ret |-> None,
     errors |-> errs \o <<AnalyzeError(ticker)>>, cache |-> cache]

analyze_stock(stock_data, history, cache) ==
    LET ticker == stock_data.ticker
        quiet(c) == [raised |-> FALSE, ret |-> None, errors |-> <<>>, cache |-> c]
    IN IF history.kind = "raise" THEN OnAnalyzeException(ticker, <<>>, cache)
       ELSE IF DfLen(history) = 0 THEN quiet(cache)      \* df.empty
       ELSE LET c == calculate_technical_indicators(history, cache)
            IN IF c.raised THEN OnAnalyzeException(ticker, <<>>, c.cache)
               ELSE IF c.ret.kind = "None" THEN quiet(c.cache)
               ELSE LET v == verify_sepa_conditions(c.ret, stock_data.criteria_details)
                    IN IF v.still_valid
                       THEN [raised |-> FALSE,
                             ret |-> QualificationRecord(stock_data, c.ret, v),
                             errors |-> v.errors, cache |-> c.cache]
                       ELSE [raised |-> FALSE, ret |-> None,
                             errors |-> v.errors, cache |-> c.cache]

-----------------------------------------------------------------------------
(* Inputs.  A history of n bars closes at `old` up to 40 bars before the   *)
(* end, at `mid` for the next 39 bars and at `last` on the latest bar; the *)
(* low of a bar is its close.                                              *)

Prices == 1..MaxPrice

Closes(n, old, mid, last) ==
    [i \in 1..n |-> IF i = n THEN last
                    ELSE IF n - i < 40 THEN mid
                    ELSE old]

History(n, old, mid, last) ==
    LET c == Closes(n, old, mid, last) IN DataFrame(c, c)

SeriesLens ==
    {0, MinBars - 1, MinBars, MinBars + MonthOffset - 2,
     MinBars + MonthOffset - 1, LowTail + MaxExtra}

Histories ==
    {History(n, old, mid, last) :
        n \in SeriesLens, old \in Prices, mid \in Prices, last \in Prices}

FetchFailure == [kind |-> "raise"]

FullMaps == [KeySet -> BOOLEAN]
PartialMaps ==
    {[j \in KeySet \ {k} |-> b] : k \in KeySet, b \in BOOLEAN} \cup {EmptyMap}
Baselines == FullMaps \cup PartialMaps

AllTrue == [k \in KeySet |-> TRUE]
AllFalse == [k \in KeySet |-> FALSE]
\* baselines of the candidate rows: complete, lacking the last key, empty
CandidateBaselines ==
    {AllTrue, AllFalse, EmptyMap} \cup
    {[j \in KeySet \ {Keys[Len(Keys)]} |-> b] : b \in BOOLEAN}

Candidate(ticker, sector, cap, price, criteria) ==
    [ticker |-> ticker, sector |-> sector, cap |-> cap, price |-> price,
     criteria_details |-> criteria]

Idle == [kind |-> "idle"]
NothingRendered == [elems |-> {}, list |-> {}]

-----------------------------------------------------------------------------
(* Specification of the three functions: Init draws the fetched history,   *)
(* each action is one call.                                                *)

Init ==
    /\ pc = "input"
    /\ fetched \in Histories \cup {None, FetchFailure}
    /\ calc_cache = {}
    /\ load_cache = Idle
    /\ sepa_df = None
    /\ filtered_df = {}
    /\ selected_stock = "-"
    /\ current_criteria = EmptyMap
    /\ calc_out = Idle
    /\ verify_out = Idle
    /\ analysis_result = Idle
    /\ errors = <<>>
    /\ rendered = NothingRendered

CallCalculate ==
    /\ pc = "input"
    /\ fetched.kind \in {"df", "None"}
    /\ LET r == calculate_technical_indicators(fetched, calc_cache)
       IN /\ calc_out' = [kind |-> "called", raised |-> r.raised, ret |-> r.ret,
                          arg |-> r.arg, hit |-> r.hit]
          /\ calc_cache' = r.cache
    /\ pc' = "calculated"
    /\ UNCHANGED <<load_cache, sepa_df, filtered_df, selected_stock, fetched,
                   current_criteria, verify_out, analysis_result, errors,
                   rendered>>

\* the DataFrame handed to verify_sepa_conditions: the raw history, or what
\* calculate_technical_indicators returned
VerifiedDf == IF calc_out.kind = "idle" THEN fetched ELSE calc_out.ret

CallVerify ==
    /\ \/ pc = "input" /\ fetched.kind \in {"df", "None"}
       \/ pc = "calculated" /\ ~calc_out.raised
    /\ \E cur \in Baselines :
          LET v == verify_sepa_conditions(VerifiedDf, cur)
          IN /\ verify_out' = [kind |-> "called", still_valid |-> v.still_valid,
                               new_criteria |-> v.new_criteria,
                               changed |-> v.changed]
             /\ errors' = v.errors
             /\ current_criteria' = cur
    /\ pc' = "verified"
    /\ UNCHANGED <<load_cache, calc_cache, sepa_df, filtered_df,
                   selected_stock, fetched, calc_out, analysis_result,
                   rendered>>

CallAnalyze ==
    /\ pc = "input"
    /\ fetched.kind \in {"df", "raise"}
    /\ \E cur \in CandidateBaselines :
          LET r == analyze_stock(Candidate("AAA", "Tech", 1, 1, cur),
                                 fetched, calc_cache)
          IN /\ analysis_result' = [kind |-> "called", raised |-> r.raised,
                                    ret |-> r.ret]
             /\ errors' = r.errors
             /\ calc_cache' = r.cache
             /\ current_criteria' = cur
    /\ pc' = "analyzed"
    /\ UNCHANGED <<load_cache, sepa_df, filtered_df, selected_stock, fetched,
                   calc_out, verify_out, rendered>>

\* the provider returns the same data again; the caches are kept
Refetch ==
    /\ pc \in {"calculated", "verified", "analyzed"}
    /\ pc' = "input"
    /\ calc_out' = Idle
    /\ verify_out' = Idle
    /\ analysis_result' = Idle
    /\ current_criteria' = EmptyMap
    /\ errors' = <<>>
    /\ UNCHANGED <<load_cache, calc_cache, sepa_df, filtered_df,
                   selected_stock, fetched, rendered>>

\* ttl=3600: the stored entries expire
ExpireCalc ==
    /\ pc \in {"input", "start"}
    /\ calc_cache # {}
    /\ calc_cache' = {}
    /\ UNCHANGED <<pc, load_cache, sepa_df, filtered_df, selected_stock,
                   fetched, current_criteria, calc_out, verify_out,
                   analysis_result, errors, rendered>>

Next ==
    \/ CallCalculate
    \/ CallVerify
    \/ CallAnalyze
    \/ Refetch
    \/ ExpireCalc

Spec == Init /\ [][Next]_vars

-----------------------------------------------------------------------------
(* main (lines 149-258): one run of the script per user interaction.       *)

Table(rows) == [kind |-> "table", rows |-> rows]

\* baselines stored with the rows of the CSV: complete, or lacking a key
RowBaselines == {AllTrue, [j \in KeySet \ {Keys[Len(Keys)]} |-> TRUE]}

RowsOf(ticker) ==
    IF ticker = "AAA"
    THEN {Candidate("AAA", "Tech", 1, 1, b) : b \in RowBaselines}
    ELSE {Candidate("BBB", "Energy", 2, 1, b) : b \in RowBaselines}

Tables ==
    {Table({})}
    \cup {Table({a}) : a \in RowsOf("AAA") \cup RowsOf("BBB")}
    \cup {Table({a, b}) : a \in RowsOf("AAA"), b \in RowsOf("BBB")}

\* what read_csv + json.loads give: a table, or an exception (None)
LoadOutcomes == Tables \cup {None}

\* what stock.history gives in a run of main
MainFetches ==
    {FetchFailure}
    \cup {History(n, 1, 1, last) :
            n \in {0, MinBars - 1, MinBars + MonthOffset - 1}, last \in Prices}

LoadError == [fn |-> "load_sepa_stocks", ticker |-> "-"]
MainError == [fn |-> "main", ticker |-> "-"]

MainInit ==
    /\ pc = "start"
    /\ load_cache = Idle
    /\ calc_cache = {}
    /\ sepa_df = None
    /\ filtered_df = {}
    /\ selected_stock = "-"
    /\ fetched = Idle
    /\ current_criteria = EmptyMap
    /\ calc_out = Idle
    /\ verify_out = Idle
    /\ analysis_result = Idle
    /\ errors = <<>>
    /\ rendered = NothingRendered

\* lines 157-161: load_sepa_stocks (cached, lines 21-32) and the early return
LoadData ==
    /\ pc = "start"
    /\ \E outcome \in LoadOutcomes :
          /\ load_cache.kind = "cached" => outcome = load_cache.val
          /\ load_cache' = [kind |-> "cached", val |-> outcome]
          /\ sepa_df' = outcome
          /\ IF outcome = None
             THEN /\ errors' = <<LoadError, MainError>>
                  /\ pc' = "stopped"
             ELSE IF outcome.rows = {}
             THEN /\ errors' = <<MainError>>
                  /\ pc' = "stopped"
             ELSE /\ errors' = <<>>
                  /\ pc' = "filters"
    /\ UNCHANGED <<calc_cache, filtered_df, selected_stock, fetched,
                   current_criteria, calc_out, verify_out, analysis_result,
                   rendered>>

\* lines 163-201: sidebar filters, pie chart and statistics
ApplyFilters ==
    /\ pc = "filters"
    /\ LET sectors == {r.sector : r \in sepa_df.rows}
           caps    == {r.cap : r \in sepa_df.rows}
       IN \E sector \in sectors \cup {"ALL"}, lo \in caps, hi \in caps :
             /\ lo <= hi
             /\ filtered_df' =
                   {r \in sepa_df.rows :
                       /\ r.cap >= lo
                       /\ r.cap <= hi
                       /\ sector # "ALL" => r.sector = sector}
    /\ rendered' = [rendered EXCEPT !.elems = @ \cup {"pie", "metrics"}]
    /\ pc' = "select"
    /\ UNCHANGED <<load_cache, calc_cache, sepa_df, selected_stock, fetched,
                   current_criteria, calc_out, verify_out, analysis_result,
                   errors>>

\* lines 207-211: the selectbox over the filtered tickers ("-" is None)
SelectStock ==
    /\ pc = "select"
    /\ IF filtered_df = {} THEN selected_stock' = "-"
       ELSE \E r \in filtered_df : selected_stock' = r.ticker
    /\ pc' = "analyze"
    /\ UNCHANGED <<load_cache, calc_cache, sepa_df, filtered_df, fetched,
                   current_criteria, calc_out, verify_out, analysis_result,
                   errors, rendered>>

\* lines 213-250: analyze the selected row, draw chart and criteria table;
\* an exception leaving analyze_stock would end the run
AnalyzeSelected ==
    /\ pc = "analyze"
    /\ selected_stock # "-"
    /\ \E history \in MainFetches :
          LET stock_data == CHOOSE r \in filtered_df : r.ticker = selected_stock
              r == analyze_stock(stock_data, history, calc_cache)
          IN /\ Cardinality(r.cache) <= MaxCache
             /\ fetched' = history
             /\ current_criteria' = stock_data.criteria_details
             /\ analysis_result' = [kind |-> "called", raised |-> r.raised,
                                    ret |-> r.ret]
             /\ errors' = errors \o r.errors
             /\ calc_cache' = r.cache
             /\ rendered' =
                   IF ~r.raised /\ r.ret.kind = "record"
                   THEN [rendered EXCEPT
                           !.elems = @ \cup {"chart", "stock_info", "criteria"}]
                   ELSE rendered
             /\ pc' = IF r.raised THEN "crashed" ELSE "list"
    /\ UNCHANGED <<load_cache, sepa_df, filtered_df, selected_stock, calc_out,
                   verify_out>>

\* line 213: nothing is selected (the filtered table is empty)
SkipAnalysis ==
    /\ pc = "analyze"
    /\ selected_stock = "-"
    /\ pc' = "list"
    /\ UNCHANGED <<load_cache, calc_cache, sepa_df, filtered_df,
                   selected_stock, fetched, current_criteria, calc_out,
                   verify_out, analysis_result, errors, rendered>>

\* lines 252-258: the table of all filtered candidates
RenderList ==
    /\ pc = "list"
    /\ rendered' = [elems |-> rendered.elems \cup {"list"}, list |-> filtered_df]
    /\ pc' = "done"
    /\ UNCHANGED <<load_cache, calc_cache, sepa_df, filtered_df,
                   selected_stock, fetched, current_criteria, calc_out,
                   verify_out, analysis_result, errors>>

\* a widget interaction runs the script again; the caches outlive the run
Rerun ==
    /\ pc \in {"done", "stopped"}
    /\ pc' = "start"
    /\ sepa_df' = None
    /\ filtered_df' = {}
    /\ selected_stock' = "-"
    /\ fetched' = Idle
    /\ current_criteria' = EmptyMap
    /\ analysis_result' = Idle
    /\ errors' = <<>>
    /\ rendered' = NothingRendered
    /\ UNCHANGED <<load_cache, calc_cache, calc_out, verify_out>>

\* ttl=3600 on load_sepa_stocks
ExpireLoad ==
    /\ pc = "start"
    /\ load_cache # Idle
    /\ load_cache' = Idle
    /\ UNCHANGED <<pc, calc_cache, sepa_df, filtered_df, selected_stock,
                   fetched, current_criteria, calc_out, verify_out,
                   analysis_result, errors, rendered>>

RunScript ==
    \/ LoadData
    \/ ApplyFilters
    \/ SelectStock
    \/ AnalyzeSelected
    \/ SkipAnalysis
    \/ RenderList

MainNext ==
    \/ RunScript
    \/ Rerun
    \/ ExpireLoad
    \/ ExpireCalc

\* the script runs to its end once started; a rerun needs the user
MainSpec == MainInit /\ [][MainNext]_vars /\ WF_vars(RunScript)

-----------------------------------------------------------------------------
(* Reference definitions used to state the properties: window sums taken   *)
(* directly from the closes, and the six predicates written from them.     *)

RECURSIVE SumRange(_, _, _)
SumRange(xs, lo, hi) ==
    IF lo > hi THEN 0
    ELSE IF lo = hi THEN xs[lo]
    ELSE LET mid == (lo + hi) \div 2
         IN SumRange(xs, lo, mid) + SumRange(xs, mid + 1, hi)

\* the mean of the k closes ending at position i, NaN when there are fewer
MeanAt(closes, k, i) ==
    IF i >= k /\ i <= Len(closes) THEN <<SumRange(closes, i - k + 1, i), k>>
    ELSE NaN

SameCell(a, b) ==
    IF IsNaN(a) \/ IsNaN(b) THEN IsNaN(a) /\ IsNaN(b)
    ELSE a[1] * b[2] = b[1] * a[2]

\* predicate 5 against the bar `back` observations before the latest one
RisingAgainst(closes, back) ==
    Gt(MeanAt(closes, 200, Len(closes)),
       MeanAt(closes, 200, Len(closes) - back))

ExpectedCriteria(df) ==
    LET c     == df.Close
        n     == Len(c)
        close == Num(c[n])
        lows  == {df.Low[i] : i \in Max(1, n - 251)..n}
        m5    == MeanAt(c, 5, n)
        m50   == MeanAt(c, 50, n)
        m150  == MeanAt(c, 150, n)
        m200  == MeanAt(c, 200, n)
    IN [k \in KeySet |->
         CASE k = "above_200d"       -> Gt(close, m200)
           [] k = "ma150_above_200d" -> Gt(m150, m200)
           [] k = "ma50_above_both"  -> Gt(m50, m150) /\ Gt(m50, m200)
           [] k = "above_5d"         -> Gt(close, m5)
           [] k = "ma200_rising"     -> RisingAgainst(c, 29)
           [] k = "up_30pct_from_52w_low" ->
                  \E l \in lows : 10 * (c[n] - l) > 3 * l]

\* the baseline lacks a key and agrees with `new` on every key before it
LookupFails(cur, new) ==
    \E i \in 1..Len(Keys) :
        /\ Keys[i] \notin DOMAIN cur
        /\ \A j \in 1..(i - 1) :
              Keys[j] \in DOMAIN cur /\ cur[Keys[j]] = new[Keys[j]]

IsDf(x) == x.kind = "df"
IsRecord(x) == x.kind = "record"
Augmented(x) == IsDf(x) /\ DOMAIN x.MA = Windows

\* verify_sepa_conditions was called on an indicator-augmented history of
\* at least 200 bars
VerifiedAugmented ==
    /\ pc = "verified"
    /\ Augmented(VerifiedDf)
    /\ DfLen(VerifiedDf) >= MinBars

GenuineEvaluation == DOMAIN verify_out.new_criteria = KeySet

-----------------------------------------------------------------------------
(* C1: analyze_stock returns a qualification record exactly when the       *)
(* fetched history is non-empty, has at least 200 bars and all six         *)
(* predicates hold on it (the evaluator not failing); in every other case  *)
(* -- fetch failure, empty history, fewer than 200 bars, a false           *)
(* predicate, an evaluator failure -- it returns None.                     *)

Qualifies(history, cur) ==
    /\ IsDf(history)
    /\ DfLen(history) > 0
    /\ DfLen(history) >= MinBars
    /\ LET expected == ExpectedCriteria(history)
       IN /\ \A k \in KeySet : expected[k]
          /\ ~LookupFails(cur, expected)

C1_RecordIffQualifies ==
    pc = "analyzed" =>
        /\ ~analysis_result.raised
        /\ IF Qualifies(fetched, current_criteria)
           THEN /\ IsRecord(analysis_result.ret)
                /\ analysis_result.ret.new_criteria = AllTrue
           ELSE analysis_result.ret = None

C1_Witness ==
    /\ pc = "analyzed"
    /\ IsRecord(analysis_result.ret)
    /\ DfLen(fetched) >= MinBars

-----------------------------------------------------------------------------
(* C2, as claimed: for every series of fewer than 200 bars, a missing      *)
(* series included, calculate_technical_indicators returns None and        *)
(* computes no moving average, and verify_sepa_conditions returns          *)
(* (False, {}, True).                                                      *)

ShortOrMissing(x) == x.kind = "None" \/ (IsDf(x) /\ DfLen(x) < MinBars)

RefusedToVerify ==
    /\ ~verify_out.still_valid
    /\ verify_out.new_criteria = EmptyMap
    /\ verify_out.changed

ReturnedInsufficient ==
    /\ ~calc_out.raised
    /\ calc_out.ret = None
    /\ calc_out.arg = fetched
    /\ \A e \in calc_cache : e.key = fetched => e.val = None

C2_ShortOrMissingRefused ==
    /\ (pc = "calculated" /\ ShortOrMissing(fetched)) => ReturnedInsufficient
    /\ (pc = "verified" /\ ShortOrMissing(VerifiedDf)) => RefusedToVerify

(* C2, amended: for every series of fewer than 200 bars the calculator     *)
(* returns None and computes no moving average, and the evaluator returns  *)
(* (False, {}, True) for such a series and for a missing one; the          *)
(* calculator itself raises on a missing series (len(None)).               *)

C2_ShortRefused ==
    /\ (pc = "calculated" /\ IsDf(fetched) /\ DfLen(fetched) < MinBars)
          => ReturnedInsufficient
    /\ (pc = "calculated" /\ fetched.kind = "None")
          => calc_out.raised /\ calc_cache = {}
    /\ (pc = "verified" /\ ShortOrMissing(VerifiedDf))
          => RefusedToVerify /\ errors = <<>>

C2_Witness ==
    /\ pc = "verified"
    /\ calc_out.kind = "called"
    /\ IsDf(fetched)
    /\ DfLen(fetched) = MinBars - 1
    /\ calc_out.ret = None
    /\ verify_out.changed

-----------------------------------------------------------------------------
(* C3: when the six predicates are evaluated against a baseline holding    *)
(* all six keys, changed is true iff some newly computed boolean differs   *)
(* from the baseline under the same key, whatever the overall pass is.     *)

C3_ChangedIffDiffers ==
    (VerifiedAugmented /\ DOMAIN current_criteria = KeySet) =>
        LET expected == ExpectedCriteria(VerifiedDf)
        IN /\ GenuineEvaluation
           /\ verify_out.new_criteria = expected
           /\ verify_out.changed <=>
                 (\E k \in KeySet : current_criteria[k] # expected[k])

C3_Witness ==
    /\ VerifiedAugmented
    /\ DOMAIN current_criteria = KeySet
    /\ verify_out.still_valid
    /\ verify_out.changed
    /\ current_criteria["up_30pct_from_52w_low"] = FALSE
    /\ \A k \in KeySet \ {"up_30pct_from_52w_low"} : current_criteria[k]

-----------------------------------------------------------------------------
(* C5: for a series of at least 200 bars and each window k, the cell       *)
(* stored for MA_k at a position with at least k closes up to it is the    *)
(* mean of the k closes ending there, and NaN at an earlier position.      *)

C5_RollingMeans ==
    (pc = "calculated" /\ IsDf(fetched) /\ DfLen(fetched) >= MinBars) =>
        /\ Augmented(calc_out.ret)
        /\ calc_out.ret.Close = fetched.Close
        /\ \A k \in Windows :
              /\ Len(calc_out.ret.MA[k]) = DfLen(fetched)
              /\ \A i \in 1..DfLen(fetched) :
                    SameCell(calc_out.ret.MA[k][i], MeanAt(fetched.Close, k, i))

C5_Witness ==
    /\ pc = "calculated"
    /\ IsDf(fetched)
    /\ DfLen(fetched) > MinBars
    /\ ~calc_out.hit
    /\ IsNaN(calc_out.ret.MA[200][MinBars - 1])
    /\ ~IsNaN(calc_out.ret.MA[200][MinBars])

-----------------------------------------------------------------------------
(* C6, as claimed: when the baseline lacks one of the six keys the         *)
(* evaluator reports an error and does not return changed = true.          *)

BaselineLacksKey == DOMAIN current_criteria # KeySet

C6_MissingKeyNotChanged ==
    (VerifiedAugmented /\ BaselineLacksKey) =>
        /\ errors # <<>>
        /\ ~verify_out.changed

(* C6, amended: when the baseline lacks one of the six keys the evaluator  *)
(* returns changed = true: either the lookup of the missing key raises,    *)
(* an error is reported and the result is (False, {}, True), or a key      *)
(* read before the missing one differs and the result is a genuine         *)
(* evaluation with changed = true and no error.                            *)

C6_MissingKeyChanged ==
    (VerifiedAugmented /\ BaselineLacksKey) =>
        LET expected == ExpectedCriteria(VerifiedDf)
        IN /\ verify_out.changed
           /\ IF LookupFails(current_criteria, expected)
              THEN /\ Len(errors) = 1
                   /\ errors[1].fn = "verify_sepa_conditions"
                   /\ verify_out.new_criteria = EmptyMap
                   /\ ~verify_out.still_valid
              ELSE /\ errors = <<>>
                   /\ verify_out.new_criteria = expected
                   /\ \E k \in DOMAIN current_criteria :
                         current_criteria[k] # expected[k]

C6_Witness ==
    /\ VerifiedAugmented
    /\ BaselineLacksKey
    /\ current_criteria # EmptyMap
    /\ errors # <<>>
    /\ verify_out.changed

-----------------------------------------------------------------------------
(* C9, as claimed: 'MA200 rising' is true iff MA200 at the latest bar      *)
(* exceeds MA200 at the bar 30 observations before the latest bar.         *)

-----------------------------------------------------------------------------
(* C10, as claimed: for 200 to 228 bars the evaluator returns a genuine    *)
(* six-key evaluation with 'MA200 rising' false and pass false, and        *)
(* analyze_stock produces no record.                                       *)

NoMonthAgoMA(df) == IsDf(df) /\ DfLen(df) >= 200 /\ DfLen(df) <= 228

C10_GenuineFailingEvaluation ==
    /\ (VerifiedAugmented /\ NoMonthAgoMA(VerifiedDf)) =>
          /\ GenuineEvaluation
          /\ ~verify_out.new_criteria["ma200_rising"]
          /\ ~verify_out.still_valid
    /\ (pc = "analyzed" /\ NoMonthAgoMA(fetched)) =>
          analysis_result.ret = None

(* C10, amended: for 200 to 228 bars the evaluator never passes and        *)
(* analyze_stock produces no record; the result is a genuine six-key       *)
(* evaluation with 'MA200 rising' false unless the baseline lacks a key    *)
(* the comparison reads, in which case it is the empty 'cannot verify'     *)
(* map.                                                                    *)

C10_NeverPasses ==
    /\ (VerifiedAugmented /\ NoMonthAgoMA(VerifiedDf)) =>
          /\ ~verify_out.still_valid
          /\ IsNaN(VerifiedDf.MA[200][DfLen(VerifiedDf) - 29])
          /\ IF LookupFails(current_criteria, ExpectedCriteria(VerifiedDf))
             THEN verify_out.new_criteria = EmptyMap
             ELSE /\ GenuineEvaluation
                  /\ ~verify_out.new_criteria["ma200_rising"]
    /\ (pc = "analyzed" /\ NoMonthAgoMA(fetched)) =>
          analysis_result.ret = None /\ ~analysis_result.raised

C10_Witness ==
    /\ VerifiedAugmented
    /\ DfLen(VerifiedDf) = 228
    /\ GenuineEvaluation
    /\ \A k \in KeySet \ {"ma200_rising"} : verify_out.new_criteria[k]
    /\ ~verify_out.new_criteria["ma200_rising"]

-----------------------------------------------------------------------------
(* C4, as claimed: on an empty history analyze_stock returns no record and *)
(* emits exactly one warning naming the ticker.                            *)

C4_EmptyHistoryWarns ==
    (pc = "analyzed" /\ IsDf(fetched) /\ DfLen(fetched) = 0) =>
        /\ analysis_result.ret = None
        /\ Len(errors) = 1
        /\ errors[1].ticker = "AAA"

-----------------------------------------------------------------------------
(* C7, as claimed: after any call of calculate_technical_indicators the    *)
(* DataFrame the caller passed in is unchanged.                            *)

C7_ArgumentUnchanged ==
    pc = "calculated" => calc_out.arg = fetched

-----------------------------------------------------------------------------
(* C8: whenever the dataset loads as a non-empty table the run reaches its *)
(* end with the table of all filtered candidates drawn, whatever the       *)
(* selected ticker's analysis gave; a run stops early only when the        *)
(* dataset failed to load or is empty, and no run dies of an exception.    *)

ListDrawn ==
    /\ pc = "done"
    /\ "list" \in rendered.elems
    /\ rendered.list = filtered_df

C8_RenderCompletes ==
    /\ (pc = "filters") ~> ListDrawn
    /\ [](pc = "stopped" => (sepa_df = None \/ sepa_df.rows = {}))
    /\ [](pc # "crashed")
    /\ [](pc = "done" => ListDrawn)

C8_Witness ==
    /\ ListDrawn
    /\ selected_stock = "BBB"
    /\ fetched = FetchFailure
    /\ Len(errors) = 1
    /\ "chart" \notin rendered.elems

====
